---- MODULE Spec2Model ----
(***************************************************************************)
(* Model of rtc::scoped_refptr<T> (src/api/scoped_refptr.h): a handle that  *)
(* holds one nullable pointer ptr_ to an intrusively reference-counted      *)
(* object and calls AddRef()/Release() on it.                               *)
(*                                                                          *)
(* Handles are the program's scoped_refptr objects, referents the           *)
(* reference-counted objects.  One thread runs the handle operations; the   *)
(* operations with several statements (raw and move assignment) are        *)
(* split at their statements, pc naming the statement that runs next.       *)
(* call, pre, incs and decs record the operation in progress (or the last   *)
(* one finished), the state it started from and the AddRef()/Release()      *)
(* calls it has made, so that an operation's effect can be stated.          *)
(***************************************************************************)
EXTENDS Integers, FiniteSets, Sequences, TLC

NumHandles == 3      \* scoped_refptr objects of the program
NumReferents == 2    \* reference-counted objects of the program
MaxDetached == 1     \* claims per referent detached by release() at a time
MaxSlotSwaps == 1    \* calls of swap(T**) on the caller's variable
NumThreads == 2      \* threads that call InitCocoaMultiThreading
MaxCalls == 2        \* calls of InitCocoaMultiThreading per thread

Handles == 1..NumHandles
Referents == 1..NumReferents
nullptr == 0
Ptr == {nullptr} \cup Referents
Threads == 1..NumThreads

VARIABLES
  ptr_,      \* ptr_[h]: the field of handle h
  live,      \* live[h]: handle h is constructed and not yet destroyed
  tmp,       \* the temporary of move assignment: [live, ptr]
  referent,  \* referent[r]: [count, alive, destroyed, misuse]
  detached,  \* detached[r]: pointers returned by release(), not yet Release()d
  pc,        \* the statement that runs next, "idle" between operations
  call,      \* the operation in progress or last finished
  pre,       \* the state in which that operation started
  incs,      \* incs[r]: AddRef() calls on r made by that operation
  decs,      \* decs[r]: Release() calls on r made by that operation
  slot,      \* a T* variable of the caller, passed to swap(T**) as &slot
  slotSwaps, \* calls of swap(T**) on the caller's variable so far
  is_cocoa_multithreaded,  \* the function's static BOOL: [init, val]
  isMultiThreaded,         \* what [NSThread isMultiThreaded] returns
  thr,       \* thr[t]: [pc, calls, no, saw] of thread t in InitCocoaMultiThreading
  hist       \* what the calls of InitCocoaMultiThreading have done so far

slotVars == <<slot, slotSwaps>>
cocoaVars == <<is_cocoa_multithreaded, isMultiThreaded, thr, hist>>
handleVars == <<ptr_, live, tmp, referent, detached, pc, call, pre, incs, decs>>
vars == <<handleVars, slotVars, cocoaVars>>

Min(a, b) == IF a < b THEN a ELSE b

----------------------------------------------------------------------------
(* The referent: the Referenceable capability the handle requires of T.    *)

\* increment(): registers one claim.  On a destroyed referent it is a use
\* after free, recorded in misuse.
AddRef(rf, r) ==
  IF rf[r].alive
    THEN [rf EXCEPT ![r].count = @ + 1]
    ELSE [rf EXCEPT ![r].misuse = TRUE]

\* decrement(): releases one claim; the referent destroys itself when the
\* count reaches zero.  Called on a destroyed referent, or more often than
\* increment(), the behaviour is undefined: the outcomes are the call going
\* unnoticed and the referent being destroyed (again).
Release(rf, r) ==
  IF rf[r].alive /\ rf[r].count > 1
    THEN {[rf EXCEPT ![r].count = @ - 1]}
  ELSE IF rf[r].alive /\ rf[r].count = 1
    THEN {[rf EXCEPT ![r].count = 0, ![r].alive = FALSE,
                     ![r].destroyed = @ + 1]}
  ELSE {[rf EXCEPT ![r].misuse = TRUE],
        [rf EXCEPT ![r].misuse = TRUE, ![r].alive = FALSE,
                   ![r].destroyed = Min(@ + 1, 2)]}

----------------------------------------------------------------------------
(* Bookkeeping of the operation in progress.                               *)

NoCalls == [r \in Referents |-> 0]
OneCall(p) == [r \in Referents |-> IF r = p THEN 1 ELSE 0]

Snapshot == [ptr |-> ptr_, live |-> live, referent |-> referent,
             detached |-> detached]

\* An operation starts between operations.  A run in which AddRef() or
\* Release() was misused has no defined behaviour and is not followed on.
BeginRet(op, h, r, p, ret) ==
  /\ pc = "idle"
  /\ \A x \in Referents : ~referent[x].misuse
  /\ call' = [op |-> op, self |-> h, src |-> r, p |-> p, ret |-> ret]
  /\ pre' = Snapshot

Begin(op, h, r, p) == BeginRet(op, h, r, p, nullptr)

\* A raw pointer the caller may pass: null, or an object that exists.
ValidRaw(p) == IF p = nullptr THEN TRUE ELSE referent[p].alive

\* if (p) p->AddRef();
CallAddRef(p) ==
  IF p # nullptr
    THEN referent' = AddRef(referent, p)
    ELSE referent' = referent

\* if (p) p->Release();
CallRelease(p) ==
  IF p # nullptr
    THEN \E nrf \in Release(referent, p) : referent' = nrf
    ELSE referent' = referent

----------------------------------------------------------------------------
(* Construction and destruction.                                            *)

\* scoped_refptr() : ptr_(nullptr) {}
DefaultCtor(h) ==
  /\ ~live[h]
  /\ Begin("default_ctor", h, h, nullptr)
  /\ live' = [live EXCEPT ![h] = TRUE]
  /\ ptr_' = [ptr_ EXCEPT ![h] = nullptr]
  /\ incs' = NoCalls /\ decs' = NoCalls
  /\ UNCHANGED <<slotVars, cocoaVars, tmp, referent, detached, pc>>


\* Mutant: the constructor stores p and forgets AddRef().
RawCtor_NoAddRef(h, p) ==
  /\ ~live[h]
  /\ ValidRaw(p)
  /\ Begin("raw_ctor", h, h, p)
  /\ live' = [live EXCEPT ![h] = TRUE]
  /\ ptr_' = [ptr_ EXCEPT ![h] = p]
  /\ incs' = NoCalls /\ decs' = NoCalls
  /\ UNCHANGED <<slotVars, cocoaVars, tmp, referent, detached, pc>>

\* scoped_refptr(T* p) : ptr_(p) { if (ptr_) ptr_->AddRef(); }
RawCtor(h, p) ==
  /\ ~live[h]
  /\ ValidRaw(p)
  /\ Begin("raw_ctor", h, h, p)
  /\ live' = [live EXCEPT ![h] = TRUE]
  /\ ptr_' = [ptr_ EXCEPT ![h] = p]
  /\ CallAddRef(p)
  /\ incs' = OneCall(p) /\ decs' = NoCalls
  /\ UNCHANGED <<slotVars, cocoaVars, tmp, detached, pc>>

\* T* get() const { return ptr_; }
get(h) == ptr_[h]

\* h.get(), and operator T*(), operator*() and operator->(), which read
\* ptr_ the same way.
Get(h) ==
  /\ live[h]
  /\ BeginRet("get", h, h, ptr_[h], get(h))
  /\ incs' = NoCalls /\ decs' = NoCalls
  /\ UNCHANGED <<slotVars, cocoaVars, ptr_, live, tmp, referent, detached, pc>>

\* A U* converted to the T* of a base class: the same object.
Upcast(p) == IF p = nullptr THEN nullptr ELSE CHOOSE r \in Referents : r = p


\* Mutant: the copy constructor forgets AddRef().
CopyCtor_NoAddRef(h, r) ==
  /\ ~live[h] /\ live[r]
  /\ Begin("copy_ctor", h, r, ptr_[r])
  /\ live' = [live EXCEPT ![h] = TRUE]
  /\ ptr_' = [ptr_ EXCEPT ![h] = ptr_[r]]
  /\ incs' = NoCalls /\ decs' = NoCalls
  /\ UNCHANGED <<slotVars, cocoaVars, tmp, referent, detached, pc>>

\* scoped_refptr(const scoped_refptr<T>& r) : ptr_(r.ptr_)
CopyCtor(h, r) ==
  /\ ~live[h] /\ live[r]
  /\ Begin("copy_ctor", h, r, ptr_[r])
  /\ live' = [live EXCEPT ![h] = TRUE]
  /\ ptr_' = [ptr_ EXCEPT ![h] = ptr_[r]]
  /\ CallAddRef(ptr_[r])
  /\ incs' = OneCall(ptr_[r]) /\ decs' = NoCalls
  /\ UNCHANGED <<slotVars, cocoaVars, tmp, detached, pc>>

\* Mutant: the converting copy constructor forgets AddRef().
CopyCtorU_NoAddRef(h, r) ==
  /\ ~live[h] /\ live[r]
  /\ Begin("copy_ctor_u", h, r, Upcast(get(r)))
  /\ live' = [live EXCEPT ![h] = TRUE]
  /\ ptr_' = [ptr_ EXCEPT ![h] = Upcast(get(r))]
  /\ incs' = NoCalls /\ decs' = NoCalls
  /\ UNCHANGED <<slotVars, cocoaVars, tmp, referent, detached, pc>>

\* template <typename U> scoped_refptr(const scoped_refptr<U>& r) : ptr_(r.get())
CopyCtorU(h, r) ==
  /\ ~live[h] /\ live[r]
  /\ Begin("copy_ctor_u", h, r, Upcast(get(r)))
  /\ live' = [live EXCEPT ![h] = TRUE]
  /\ ptr_' = [ptr_ EXCEPT ![h] = Upcast(get(r))]
  /\ CallAddRef(Upcast(get(r)))
  /\ incs' = OneCall(Upcast(get(r))) /\ decs' = NoCalls
  /\ UNCHANGED <<slotVars, cocoaVars, tmp, detached, pc>>


\* Mutant: the move constructor reads r.ptr_ and leaves r as it was.
MoveCtor_KeepSource(h, r) ==
  /\ ~live[h] /\ live[r]
  /\ Begin("move_ctor", h, r, ptr_[r])
  /\ live' = [live EXCEPT ![h] = TRUE]
  /\ ptr_' = [ptr_ EXCEPT ![h] = ptr_[r]]
  /\ incs' = NoCalls /\ decs' = NoCalls
  /\ UNCHANGED <<slotVars, cocoaVars, tmp, referent, detached, pc>>

\* scoped_refptr(scoped_refptr<T>&& r) noexcept : ptr_(r.release()) {}
\* (and the template <typename U> overload, which reads the same)
MoveCtor(h, r) ==
  /\ ~live[h] /\ live[r]
  /\ Begin("move_ctor", h, r, ptr_[r])
  /\ live' = [live EXCEPT ![h] = TRUE]
  /\ ptr_' = [ptr_ EXCEPT ![r] = nullptr, ![h] = ptr_[r]]
  /\ incs' = NoCalls /\ decs' = NoCalls
  /\ UNCHANGED <<slotVars, cocoaVars, tmp, referent, detached, pc>>

\* Mutant: the destructor forgets Release().
Dtor_NoRelease(h) ==
  /\ live[h]
  /\ Begin("dtor", h, h, ptr_[h])
  /\ live' = [live EXCEPT ![h] = FALSE]
  /\ ptr_' = [ptr_ EXCEPT ![h] = nullptr]
  /\ incs' = NoCalls /\ decs' = NoCalls
  /\ UNCHANGED <<slotVars, cocoaVars, tmp, referent, detached, pc>>

\* ~scoped_refptr() { if (ptr_) ptr_->Release(); }
\* The field of a destroyed handle no longer exists; it is kept as nullptr.
Dtor(h) ==
  /\ live[h]
  /\ Begin("dtor", h, h, ptr_[h])
  /\ CallRelease(ptr_[h])
  /\ live' = [live EXCEPT ![h] = FALSE]
  /\ ptr_' = [ptr_ EXCEPT ![h] = nullptr]
  /\ incs' = NoCalls /\ decs' = OneCall(ptr_[h])
  /\ UNCHANGED <<slotVars, cocoaVars, tmp, detached, pc>>

----------------------------------------------------------------------------
(* Detaching.                                                               *)


\* Mutant: release() also calls Release() on the pointer it returns.
release_Decrement(h) ==
  /\ live[h]
  /\ ptr_[h] # nullptr => detached[ptr_[h]] < MaxDetached
  /\ BeginRet("release", h, h, ptr_[h], ptr_[h])
  /\ ptr_' = [ptr_ EXCEPT ![h] = nullptr]
  /\ CallRelease(ptr_[h])
  /\ detached' = IF ptr_[h] # nullptr
                   THEN [detached EXCEPT ![ptr_[h]] = @ + 1]
                   ELSE detached
  /\ incs' = NoCalls /\ decs' = OneCall(ptr_[h])
  /\ UNCHANGED <<slotVars, cocoaVars, live, tmp, pc>>

\* Mutant: release() returns ptr_ and forgets ptr_ = nullptr.
release_KeepField(h) ==
  /\ live[h]
  /\ ptr_[h] # nullptr => detached[ptr_[h]] < MaxDetached
  /\ BeginRet("release", h, h, ptr_[h], ptr_[h])
  /\ detached' = IF ptr_[h] # nullptr
                   THEN [detached EXCEPT ![ptr_[h]] = @ + 1]
                   ELSE detached
  /\ incs' = NoCalls /\ decs' = NoCalls
  /\ UNCHANGED <<slotVars, cocoaVars, ptr_, live, tmp, referent, pc>>

\* T* release() { T* retVal = ptr_; ptr_ = nullptr; return retVal; }
\* The caller now owns the claim: detached counts it until the caller
\* calls Release() on the returned pointer.
release(h) ==
  /\ live[h]
  /\ ptr_[h] # nullptr => detached[ptr_[h]] < MaxDetached
  /\ BeginRet("release", h, h, ptr_[h], ptr_[h])
  /\ ptr_' = [ptr_ EXCEPT ![h] = nullptr]
  /\ detached' = IF ptr_[h] # nullptr
                   THEN [detached EXCEPT ![ptr_[h]] = @ + 1]
                   ELSE detached
  /\ incs' = NoCalls /\ decs' = NoCalls
  /\ UNCHANGED <<slotVars, cocoaVars, live, tmp, referent, pc>>

\* The caller of release() calls Release() once on the object it was given.
CallerRelease(r) ==
  /\ detached[r] > 0
  /\ Begin("caller_release", 1, 1, r)
  /\ CallRelease(r)
  /\ detached' = [detached EXCEPT ![r] = @ - 1]
  /\ incs' = NoCalls /\ decs' = OneCall(r)
  /\ UNCHANGED <<slotVars, cocoaVars, ptr_, live, tmp, pc>>

----------------------------------------------------------------------------
(* Assignment from a raw pointer, and copy assignment, which delegates.    *)


\* Mutant: operator=(T*) forgets AddRef() on p.
OperatorAssign_NoAddRef(op, h, r, p) ==
  /\ live[h]
  /\ Begin(op, h, r, p)
  /\ incs' = NoCalls /\ decs' = NoCalls
  /\ pc' = "assign_release"
  /\ UNCHANGED <<slotVars, cocoaVars, ptr_, live, tmp, referent, detached>>

\* Mutant: operator=(T*) releases the current referent before AddRef().
OperatorAssign_ReleaseFirst(op, h, r, p) ==
  /\ live[h]
  /\ Begin(op, h, r, p)
  /\ \E mid \in (IF ptr_[h] # nullptr THEN Release(referent, ptr_[h])
                                      ELSE {referent}) :
       referent' = (IF p # nullptr THEN AddRef(mid, p) ELSE mid)
  /\ incs' = OneCall(p) /\ decs' = OneCall(ptr_[h])
  /\ pc' = "assign_store"
  /\ UNCHANGED <<slotVars, cocoaVars, ptr_, live, tmp, detached>>

\* operator=(T* p), first statement: if (p) p->AddRef();
OperatorAssign(op, h, r, p) ==
  /\ live[h]
  /\ Begin(op, h, r, p)
  /\ CallAddRef(p)
  /\ incs' = OneCall(p) /\ decs' = NoCalls
  /\ pc' = "assign_release"
  /\ UNCHANGED <<slotVars, cocoaVars, ptr_, live, tmp, detached>>


\* Mutant: operator=(T*) forgets to release the current referent.
AssignRelease_Skip ==
  /\ pc = "assign_release"
  /\ pc' = "assign_store"
  /\ UNCHANGED <<slotVars, cocoaVars, ptr_, live, tmp, referent, detached, call, pre, incs, decs>>

\* operator=(T* p), second statement: if (ptr_) ptr_->Release();
AssignRelease ==
  /\ pc = "assign_release"
  /\ CallRelease(ptr_[call.self])
  /\ decs' = OneCall(ptr_[call.self])
  /\ pc' = "assign_store"
  /\ UNCHANGED <<slotVars, cocoaVars, ptr_, live, tmp, detached, call, pre, incs>>

\* Mutant: operator=(T*) forgets ptr_ = p.
AssignStore_KeepOld ==
  /\ pc = "assign_store"
  /\ pc' = "idle"
  /\ UNCHANGED <<slotVars, cocoaVars, ptr_, live, tmp, referent, detached, call, pre, incs, decs>>

\* operator=(T* p), third statement: ptr_ = p; return *this;
AssignStore ==
  /\ pc = "assign_store"
  /\ ptr_' = [ptr_ EXCEPT ![call.self] = call.p]
  /\ pc' = "idle"
  /\ UNCHANGED <<slotVars, cocoaVars, live, tmp, referent, detached, call, pre, incs, decs>>

\* h = p;
RawAssign(h, p) ==
  /\ ValidRaw(p)
  /\ OperatorAssign("raw_assign", h, h, p)

\* Mutant: copy assignment takes the pointer away from its source.
CopyAssign_StealSource(h, r) ==
  /\ live[h] /\ live[r]
  /\ Begin("copy_assign", h, r, ptr_[r])
  /\ CallAddRef(ptr_[r])
  /\ ptr_' = [ptr_ EXCEPT ![r] = IF r = h THEN @ ELSE nullptr]
  /\ incs' = OneCall(ptr_[r]) /\ decs' = NoCalls
  /\ pc' = "assign_release"
  /\ UNCHANGED <<slotVars, cocoaVars, live, tmp, detached>>

\* operator=(const scoped_refptr<T>& r) { return *this = r.ptr_; }
CopyAssign(h, r) ==
  /\ live[r]
  /\ OperatorAssign("copy_assign", h, r, ptr_[r])

\* template <typename U> operator=(const scoped_refptr<U>& r)
\*   { return *this = r.get(); }
CopyAssignU(h, r) ==
  /\ live[r]
  /\ OperatorAssign("copy_assign_u", h, r, Upcast(get(r)))

----------------------------------------------------------------------------
(* Move assignment: scoped_refptr<T>(std::move(r)).swap( *this);            *)


\* Mutant: the temporary reads r.ptr_ and leaves r as it was.
MoveAssign_KeepSource(h, r) ==
  /\ live[h] /\ live[r]
  /\ Begin("move_assign", h, r, ptr_[r])
  /\ tmp' = [live |-> TRUE, ptr |-> ptr_[r]]
  /\ incs' = NoCalls /\ decs' = NoCalls
  /\ pc' = "move_swap"
  /\ UNCHANGED <<slotVars, cocoaVars, ptr_, live, referent, detached>>

\* Mutant: the temporary is copy-constructed from r (std::move forgotten).
MoveAssign_CopyTemp(h, r) ==
  /\ live[h] /\ live[r]
  /\ Begin("move_assign", h, r, ptr_[r])
  /\ tmp' = [live |-> TRUE, ptr |-> ptr_[r]]
  /\ CallAddRef(ptr_[r])
  /\ incs' = OneCall(ptr_[r]) /\ decs' = NoCalls
  /\ pc' = "move_swap"
  /\ UNCHANGED <<slotVars, cocoaVars, ptr_, live, detached>>

\* The temporary is move-constructed from r: ptr_(r.release()).
MoveAssign(h, r) ==
  /\ live[h] /\ live[r]
  /\ Begin("move_assign", h, r, ptr_[r])
  /\ tmp' = [live |-> TRUE, ptr |-> ptr_[r]]
  /\ ptr_' = [ptr_ EXCEPT ![r] = nullptr]
  /\ incs' = NoCalls /\ decs' = NoCalls
  /\ pc' = "move_swap"
  /\ UNCHANGED <<slotVars, cocoaVars, live, referent, detached>>


\* Mutant: swap(T**) forgets ptr_ = *pp, the temporary keeps its pointer.
MoveSwap_NoWriteBack ==
  /\ pc = "move_swap"
  /\ ptr_' = [ptr_ EXCEPT ![call.self] = tmp.ptr]
  /\ pc' = "move_dtor"
  /\ UNCHANGED <<slotVars, cocoaVars, live, tmp, referent, detached, call, pre, incs, decs>>

\* temporary.swap( *this), that is swap(&this->ptr_) on the temporary:
\*   T* p = ptr_; ptr_ = *pp; *pp = p;
MoveSwap ==
  /\ pc = "move_swap"
  /\ tmp' = [tmp EXCEPT !.ptr = ptr_[call.self]]
  /\ ptr_' = [ptr_ EXCEPT ![call.self] = tmp.ptr]
  /\ pc' = "move_dtor"
  /\ UNCHANGED <<slotVars, cocoaVars, live, referent, detached, call, pre, incs, decs>>


\* Mutant: the temporary is dropped without Release().
MoveDtor_NoRelease ==
  /\ pc = "move_dtor"
  /\ tmp' = [live |-> FALSE, ptr |-> nullptr]
  /\ pc' = "idle"
  /\ UNCHANGED <<slotVars, cocoaVars, ptr_, live, referent, detached, call, pre, incs, decs>>

\* The temporary is destroyed at the end of the statement.
MoveDtor ==
  /\ pc = "move_dtor"
  /\ CallRelease(tmp.ptr)
  /\ decs' = OneCall(tmp.ptr)
  /\ tmp' = [live |-> FALSE, ptr |-> nullptr]
  /\ pc' = "idle"
  /\ UNCHANGED <<slotVars, cocoaVars, ptr_, live, detached, call, pre, incs>>

----------------------------------------------------------------------------
(* Swap.                                                                    *)


\* Mutant: swap forgets *pp = p, the argument keeps its pointer.
swap_OneWay(h, r) ==
  /\ live[h] /\ live[r]
  /\ Begin("swap", h, r, ptr_[r])
  /\ ptr_' = [ptr_ EXCEPT ![h] = ptr_[r]]
  /\ incs' = NoCalls /\ decs' = NoCalls
  /\ UNCHANGED <<slotVars, cocoaVars, live, tmp, referent, detached, pc>>

\* void swap(scoped_refptr<T>& r) noexcept { swap(&r.ptr_); }
\* void swap(T** pp) noexcept { T* p = ptr_; ptr_ = *pp; *pp = p; }
swap(h, r) ==
  /\ live[h] /\ live[r]
  /\ Begin("swap", h, r, ptr_[r])
  /\ ptr_' = [ptr_ EXCEPT ![h] = ptr_[r], ![r] = ptr_[h]]
  /\ incs' = NoCalls /\ decs' = NoCalls
  /\ UNCHANGED <<slotVars, cocoaVars, live, tmp, referent, detached, pc>>

----------------------------------------------------------------------------
(* Swap with a pointer variable of the caller.                              *)

\* The caller stores a pointer of its own in its empty variable: slot = p;
SlotAssign(p) ==
  /\ pc = "idle"
  /\ ValidRaw(p)
  /\ slot = nullptr /\ p # nullptr
  /\ slotSwaps < MaxSlotSwaps
  /\ slot' = p
  /\ UNCHANGED <<handleVars, slotSwaps, cocoaVars>>

\* h.swap(&slot):
\* void swap(T** pp) noexcept { T* p = ptr_; ptr_ = *pp; *pp = p; }
swapRaw(h) ==
  /\ live[h]
  /\ slotSwaps < MaxSlotSwaps
  /\ Begin("swap_raw", h, h, slot)
  /\ ptr_' = [ptr_ EXCEPT ![h] = slot]
  /\ slot' = ptr_[h]
  /\ slotSwaps' = slotSwaps + 1
  /\ incs' = NoCalls /\ decs' = NoCalls
  /\ UNCHANGED <<cocoaVars, live, tmp, referent, detached, pc>>

----------------------------------------------------------------------------
(* InitCocoaMultiThreading (src/rtc_base/system/cocoa_threading.mm).       *)
(* thr[t].pc is the statement thread t runs next, "out" outside the        *)
(* function; thr[t].no numbers the calls in the order they began.  hist    *)
(* records which calls detached a thread and wrote the flag.               *)

Inside(t) == thr[t].pc # "out"

\* A call begins: static BOOL is_cocoa_multithreaded = [NSThread
\* isMultiThreaded];  The initializer of the static runs in the first call
\* to reach it, once; the language makes the other callers wait for it.
InitCocoaMultiThreading(t) ==
  /\ thr[t].pc = "out"
  /\ thr[t].calls < MaxCalls
  /\ thr' = [thr EXCEPT ![t].pc = "check", ![t].no = hist.started + 1]
  /\ is_cocoa_multithreaded' =
       IF is_cocoa_multithreaded.init
         THEN is_cocoa_multithreaded
         ELSE [init |-> TRUE, val |-> isMultiThreaded]
  /\ hist' = [hist EXCEPT
                !.started = @ + 1,
                !.inits = IF is_cocoa_multithreaded.init THEN @ ELSE @ + 1,
                !.overlap = @ \/ \E u \in Threads \ {t} : Inside(u)]
  /\ UNCHANGED <<handleVars, slotVars, isMultiThreaded>>

\* if (!is_cocoa_multithreaded) { ... }  and the return when it is set.
CheckFlag(t) ==
  /\ thr[t].pc = "check"
  /\ thr' = [thr EXCEPT
               ![t].saw = is_cocoa_multithreaded.val,
               ![t].pc = IF is_cocoa_multithreaded.val THEN "out"
                                                       ELSE "detach",
               ![t].calls = IF is_cocoa_multithreaded.val THEN @ + 1 ELSE @]
  /\ UNCHANGED <<handleVars, slotVars, is_cocoa_multithreaded,
                 isMultiThreaded, hist>>

\* Mutant: no thread is detached.
DetachNewThread_Skip(t) ==
  /\ thr[t].pc = "detach"
  /\ thr' = [thr EXCEPT ![t].pc = "set"]
  /\ hist' = [hist EXCEPT !.detachedBy = @ \cup {thr[t].no}]
  /\ UNCHANGED <<handleVars, slotVars, is_cocoa_multithreaded,
                 isMultiThreaded>>

\* [NSThread detachNewThreadSelector:@selector(class)
\*           toTarget:[NSObject class] withObject:nil];
\* Detaching a thread makes the process multi-threaded, and it stays so.
DetachNewThread(t) ==
  /\ thr[t].pc = "detach"
  /\ isMultiThreaded' = TRUE
  /\ thr' = [thr EXCEPT ![t].pc = "set"]
  /\ hist' = [hist EXCEPT !.detachedBy = @ \cup {thr[t].no}]
  /\ UNCHANGED <<handleVars, slotVars, is_cocoa_multithreaded>>

\* Mutant: the flag is not set after the thread is detached.
SetFlag_Forget(t) ==
  /\ thr[t].pc = "set"
  /\ thr' = [thr EXCEPT ![t].pc = "dcheck"]
  /\ hist' = [hist EXCEPT !.setBy = @ \cup {thr[t].no}]
  /\ UNCHANGED <<handleVars, slotVars, is_cocoa_multithreaded,
                 isMultiThreaded>>

\* is_cocoa_multithreaded = YES;
SetFlag(t) ==
  /\ thr[t].pc = "set"
  /\ is_cocoa_multithreaded' = [is_cocoa_multithreaded EXCEPT !.val = TRUE]
  /\ thr' = [thr EXCEPT ![t].pc = "dcheck"]
  /\ hist' = [hist EXCEPT !.setBy = @ \cup {thr[t].no}]
  /\ UNCHANGED <<handleVars, slotVars, isMultiThreaded>>

\* RTC_DCHECK([NSThread isMultiThreaded]);  and the return.
DCheck(t) ==
  /\ thr[t].pc = "dcheck"
  /\ thr' = [thr EXCEPT ![t].pc = "out", ![t].calls = @ + 1]
  /\ hist' = [hist EXCEPT !.dcheckFailed = @ \/ ~isMultiThreaded]
  /\ UNCHANGED <<handleVars, slotVars, is_cocoa_multithreaded,
                 isMultiThreaded>>

----------------------------------------------------------------------------
(* The program: every referent fresh from new, no handle constructed yet,  *)
(* InitCocoaMultiThreading not yet called.                                  *)

NoHandles ==
  /\ ptr_ = [h \in Handles |-> nullptr]
  /\ live = [h \in Handles |-> FALSE]
  /\ tmp = [live |-> FALSE, ptr |-> nullptr]
  /\ referent = [r \in Referents |->
                   [count |-> 0, alive |-> TRUE, destroyed |-> 0,
                    misuse |-> FALSE]]
  /\ detached = [r \in Referents |-> 0]
  /\ pc = "idle"
  /\ call = [op |-> "none", self |-> 1, src |-> 1, p |-> nullptr,
             ret |-> nullptr]
  /\ pre = Snapshot
  /\ incs = NoCalls
  /\ decs = NoCalls
  /\ slot = nullptr
  /\ slotSwaps = 0

\* No call yet; mt is whether the process is multi-threaded already.
CocoaStart(mt) ==
  /\ is_cocoa_multithreaded = [init |-> FALSE, val |-> FALSE]
  /\ isMultiThreaded = mt
  /\ thr = [t \in Threads |->
              [pc |-> "out", calls |-> 0, no |-> 0, saw |-> FALSE]]
  /\ hist = [started |-> 0, inits |-> 0, detachedBy |-> {}, setBy |-> {},
             overlap |-> FALSE, dcheckFailed |-> FALSE, mtBefore |-> mt]

Init == NoHandles /\ CocoaStart(FALSE)

Next ==
  \/ \E h \in Handles : DefaultCtor(h)
  \/ \E h \in Handles, p \in Ptr : RawCtor(h, p)
  \/ \E h \in Handles, r \in Handles : CopyCtor(h, r)
  \/ \E h \in Handles, r \in Handles : CopyCtorU(h, r)
  \/ \E h \in Handles, r \in Handles : MoveCtor(h, r)
  \/ \E h \in Handles : Dtor(h)
  \/ \E h \in Handles : Get(h)
  \/ \E h \in Handles : release(h)
  \/ \E r \in Referents : CallerRelease(r)
  \/ \E h \in Handles, p \in Ptr : RawAssign(h, p)
  \/ \E h \in Handles, r \in Handles : CopyAssign(h, r)
  \/ \E h \in Handles, r \in Handles : CopyAssignU(h, r)
  \/ AssignRelease
  \/ AssignStore
  \/ \E h \in Handles, r \in Handles : MoveAssign(h, r)
  \/ MoveSwap
  \/ MoveDtor
  \/ \E h \in Handles, r \in Handles : swap(h, r)

Spec == Init /\ [][Next]_vars

\* The handle operations without release(), with swap(T**) on a variable
\* of the caller.
NextSlot ==
  \/ \E h \in Handles : DefaultCtor(h)
  \/ \E h \in Handles, p \in Ptr : RawCtor(h, p)
  \/ \E h \in Handles, r \in Handles : CopyCtor(h, r)
  \/ \E h \in Handles, r \in Handles : CopyCtorU(h, r)
  \/ \E h \in Handles, r \in Handles : MoveCtor(h, r)
  \/ \E h \in Handles : Dtor(h)
  \/ \E h \in Handles : Get(h)
  \/ \E h \in Handles, p \in Ptr : RawAssign(h, p)
  \/ \E h \in Handles, r \in Handles : CopyAssign(h, r)
  \/ \E h \in Handles, r \in Handles : CopyAssignU(h, r)
  \/ AssignRelease
  \/ AssignStore
  \/ \E h \in Handles, r \in Handles : MoveAssign(h, r)
  \/ MoveSwap
  \/ MoveDtor
  \/ \E h \in Handles, r \in Handles : swap(h, r)
  \/ \E p \in Ptr : SlotAssign(p)
  \/ \E h \in Handles : swapRaw(h)

SpecSlot == Init /\ [][NextSlot]_vars

\* The calls of InitCocoaMultiThreading, in a process that is or is not
\* multi-threaded at the start.
InitCocoa == NoHandles /\ \E mt \in BOOLEAN : CocoaStart(mt)

NextCocoa ==
  \/ \E t \in Threads : InitCocoaMultiThreading(t)
  \/ \E t \in Threads : CheckFlag(t)
  \/ \E t \in Threads : DetachNewThread(t)
  \/ \E t \in Threads : SetFlag(t)
  \/ \E t \in Threads : DCheck(t)

SpecCocoa == InitCocoa /\ [][NextCocoa]_vars

----------------------------------------------------------------------------
TypeOK ==
  /\ ptr_ \in [Handles -> Ptr]
  /\ live \in [Handles -> BOOLEAN]
  /\ tmp \in [live : BOOLEAN, ptr : Ptr]
  /\ \A r \in Referents :
       /\ referent[r].count \in 0..(NumHandles + MaxDetached + 1)
       /\ referent[r].alive \in BOOLEAN
       /\ referent[r].destroyed \in 0..2
       /\ referent[r].misuse \in BOOLEAN
  /\ detached \in [Referents -> 0..MaxDetached]
  /\ pc \in {"idle", "assign_release", "assign_store", "move_swap",
             "move_dtor"}
  /\ slot \in Ptr
  /\ slotSwaps \in 0..MaxSlotSwaps
  /\ is_cocoa_multithreaded \in [init : BOOLEAN, val : BOOLEAN]
  /\ isMultiThreaded \in BOOLEAN
  /\ \A t \in Threads :
       /\ thr[t].pc \in {"out", "check", "detach", "set", "dcheck"}
       /\ thr[t].calls \in 0..MaxCalls
       /\ thr[t].no \in 0..(NumThreads * MaxCalls)
       /\ thr[t].saw \in BOOLEAN
  /\ hist.started \in 0..(NumThreads * MaxCalls)

----------------------------------------------------------------------------
(* Vocabulary of the properties.                                            *)

\* The operation op has just returned.
Done(op) == pc = "idle" /\ call.op = op

\* The live handles whose field points at r.
HandlesAt(r) == {h \in Handles : live[h] /\ ptr_[h] = r}

\* The statements of operator=(T*) are running or have just finished.
AssignOps == {"raw_assign", "copy_assign", "copy_assign_u"}
InAssign == call.op \in AssignOps

\* The receiver's field and the assigned pointer when the operation began.
Old == pre.ptr[call.self]
SrcOld == pre.ptr[call.src]

\* C1: between handle operations, for every live referent the number of
\* live handles pointing at it plus the claims detached by release() and
\* not yet decremented equals its claim count.
C1_ClaimCountInvariant ==
  pc = "idle" =>
    \A r \in Referents :
      referent[r].alive =>
        Cardinality(HandlesAt(r)) + detached[r] = referent[r].count

C1_Witness ==
  /\ pc = "idle"
  /\ \E r \in Referents :
       /\ referent[r].alive
       /\ Cardinality(HandlesAt(r)) = 2
       /\ detached[r] = 1
       /\ referent[r].count = 3

\* C2: a referent is destroyed at most once, by the Release() call that
\* takes its claim count from one to zero, and no operation calls
\* AddRef() or Release() on a destroyed referent.
C2_DestroyedOnce ==
  /\ [](\A r \in Referents :
          /\ referent[r].destroyed <= 1
          /\ ~referent[r].misuse
          /\ referent[r].alive <=> referent[r].destroyed = 0)
  /\ [][\A r \in Referents :
          /\ referent'[r].destroyed # referent[r].destroyed =>
               /\ referent[r].count = 1 /\ referent'[r].count = 0
               /\ decs'[r] = 1
          /\ (referent[r].count = 1 /\ referent'[r].count = 0) =>
               referent'[r].destroyed = referent[r].destroyed + 1]_vars

C2_Witness ==
  /\ Done("raw_assign")
  /\ Old # nullptr
  /\ pre.referent[Old].alive
  /\ referent[Old].destroyed = 1
  /\ decs[Old] = 1

\* C3: operator=(T* p) increments p, then decrements the current referent,
\* then stores p; when p is the receiver's current referent or the referent
\* of another handle, p's claim count is at least one at every step.
C3_AssignOrder ==
  InAssign =>
    /\ pc = "assign_release" =>
         /\ incs = OneCall(call.p) /\ decs = NoCalls
         /\ ptr_ = pre.ptr
         /\ call.p # nullptr =>
              referent[call.p].count = pre.referent[call.p].count + 1
    /\ pc = "assign_store" =>
         /\ incs = OneCall(call.p) /\ decs = OneCall(Old)
         /\ ptr_ = pre.ptr
    /\ pc = "idle" =>
         /\ incs = OneCall(call.p) /\ decs = OneCall(Old)
         /\ ptr_ = [pre.ptr EXCEPT ![call.self] = call.p]
    /\ (/\ call.p # nullptr
        /\ \E h \in Handles : pre.live[h] /\ pre.ptr[h] = call.p) =>
         /\ referent[call.p].alive
         /\ referent[call.p].count >= 1

C3_Witness ==
  /\ call.op = "raw_assign"
  /\ pc = "assign_store"
  /\ call.p # nullptr
  /\ call.p = Old
  /\ pre.referent[call.p].count = 1
  /\ referent[call.p].count = 1

\* C4: assigning to a handle its own referent (h = h, h = another handle
\* pointing at the same referent, h = h.get()) leaves every claim count,
\* every referent and every handle's field as it was.
SelfAssign ==
  /\ InAssign /\ pc = "idle"
  /\ call.p = Old

C4_SelfAssignNeutral ==
  SelfAssign =>
    /\ referent = pre.referent
    /\ ptr_ = pre.ptr
    /\ Old # nullptr => referent[Old].alive

C4_Witness ==
  /\ SelfAssign
  /\ call.op = "copy_assign"
  /\ call.src # call.self
  /\ Old # nullptr
  /\ referent[Old].count = 2

\* C5: h = std::move(h) calls no Release(), leaves the handle null or
\* unchanged at every step and unchanged at the end, with every claim
\* count as before.
SelfMove == call.op = "move_assign" /\ call.src = call.self

C5_SelfMoveSafe ==
  SelfMove =>
    /\ decs = NoCalls /\ incs = NoCalls
    /\ referent = pre.referent
    /\ ptr_[call.self] \in {nullptr, Old}
    /\ pc = "idle" => ptr_ = pre.ptr

C5_Witness ==
  /\ SelfMove /\ pc = "idle"
  /\ Old # nullptr
  /\ referent[Old].count = 1
  /\ ptr_[call.self] = Old

\* C6 as stated: after move-constructing or move-assigning handle B from a
\* distinct handle A, A is null, B holds the claim A held and the claim
\* count of the referent is unchanged.
MovedFrom ==
  \/ Done("move_ctor")
  \/ Done("move_assign") /\ call.src # call.self

C6_Original ==
  MovedFrom =>
    /\ ptr_[call.src] = nullptr
    /\ ptr_[call.self] = SrcOld
    /\ incs = NoCalls
    /\ SrcOld # nullptr =>
         referent[SrcOld].count = pre.referent[SrcOld].count

\* C6: after move-constructing or move-assigning handle B from a distinct
\* handle A, A is null and B holds the claim A held: no AddRef() is called,
\* and the claim count of A's former referent is unchanged, except that it
\* is one lower when B pointed at that same referent before (B's own
\* previous claim is released).
C6_MoveTransfers ==
  MovedFrom =>
    /\ ptr_[call.src] = nullptr
    /\ ptr_[call.self] = SrcOld
    /\ incs = NoCalls
    /\ SrcOld # nullptr =>
         /\ referent[SrcOld].alive
         /\ referent[SrcOld].count =
              pre.referent[SrcOld].count - (IF Old = SrcOld THEN 1 ELSE 0)

C6_Witness ==
  /\ Done("move_assign")
  /\ call.src # call.self
  /\ SrcOld # nullptr
  /\ Old # SrcOld
  /\ ptr_[call.self] = SrcOld
  /\ referent[SrcOld].count = 2

\* C7 as stated: move-assigning from a distinct source calls Release()
\* exactly once on the destination's previous referent and never on the
\* source's former referent; the destination then holds the source's former
\* referent and the source is null.
MoveAssigned == Done("move_assign") /\ call.src # call.self

C7_Original ==
  MoveAssigned =>
    /\ decs = OneCall(Old)
    /\ SrcOld # nullptr => decs[SrcOld] = 0
    /\ ptr_[call.self] = SrcOld
    /\ ptr_[call.src] = nullptr

\* C7: move-assigning from a distinct source calls Release() exactly once
\* on the destination's previous referent (if non-null) and on no other
\* referent, so never on the source's former referent unless that is the
\* same object; the destination then holds the source's former referent
\* and the source is null.
C7_MoveAssignReleasesOld ==
  MoveAssigned =>
    /\ decs = OneCall(Old)
    /\ incs = NoCalls
    /\ (SrcOld # nullptr /\ SrcOld # Old) => decs[SrcOld] = 0
    /\ ptr_[call.self] = SrcOld
    /\ ptr_[call.src] = nullptr
    /\ Old # nullptr =>
         IF pre.referent[Old].count = 1
           THEN ~referent[Old].alive /\ referent[Old].destroyed = 1
           ELSE referent[Old].count = pre.referent[Old].count - 1

C7_Witness ==
  /\ MoveAssigned
  /\ Old # nullptr /\ SrcOld # nullptr /\ Old # SrcOld
  /\ referent[Old].destroyed = 1
  /\ pre.referent[Old].alive
  /\ ptr_[call.self] = SrcOld

\* C8: release() returns the pointer the handle held, leaves the handle
\* null and calls neither AddRef() nor Release(): every claim count is
\* unchanged and the caller holds one more detached claim on the referent.
C8_ReleaseDetaches ==
  Done("release") =>
    /\ call.ret = Old
    /\ ptr_ = [pre.ptr EXCEPT ![call.self] = nullptr]
    /\ incs = NoCalls /\ decs = NoCalls
    /\ referent = pre.referent
    /\ \A r \in Referents :
         detached[r] = pre.detached[r] + (IF r = Old THEN 1 ELSE 0)

C8_Witness ==
  /\ Done("release")
  /\ call.ret # nullptr
  /\ referent[call.ret].count = 1
  /\ detached[call.ret] = 1
  /\ HandlesAt(call.ret) = {}

\* C9: swap exchanges the fields of the two handles, a null field
\* included, and calls neither AddRef() nor Release(): every claim count is
\* unchanged.
C9_SwapExchanges ==
  Done("swap") =>
    /\ ptr_[call.self] = SrcOld
    /\ ptr_[call.src] = Old
    /\ \A h \in Handles \ {call.self, call.src} : ptr_[h] = pre.ptr[h]
    /\ incs = NoCalls /\ decs = NoCalls
    /\ referent = pre.referent

C9_Witness ==
  /\ Done("swap")
  /\ call.src # call.self
  /\ Old # nullptr /\ SrcOld = nullptr
  /\ ptr_[call.self] = nullptr /\ ptr_[call.src] = Old

\* C10: copy construction and copy assignment, from the same or a related
\* type, call AddRef() exactly once on the source's referent when it is
\* non-null, leave the source as it was, and make get() of the receiver
\* equal to the source's referent; both handles then own a claim on it.
CopyOps == {"copy_ctor", "copy_ctor_u", "copy_assign", "copy_assign_u"}
Copied == pc = "idle" /\ call.op \in CopyOps

C10_CopyRegistersOneClaim ==
  Copied =>
    /\ incs = OneCall(SrcOld)
    /\ ptr_[call.src] = SrcOld
    /\ get(call.self) = SrcOld
    /\ SrcOld # nullptr =>
         /\ referent[SrcOld].alive
         /\ {call.self, call.src} \subseteq HandlesAt(SrcOld)
         /\ referent[SrcOld].count =
              pre.referent[SrcOld].count + (IF Old = SrcOld THEN 0 ELSE 1)
         /\ referent[SrcOld].count >= Cardinality({call.self, call.src})

C10_Witness ==
  /\ Done("copy_ctor_u")
  /\ SrcOld # nullptr
  /\ pre.referent[SrcOld].count = 1
  /\ referent[SrcOld].count = 2
  /\ get(call.self) = get(call.src)

\* C11: constructing a handle from a referent raises its claim count by
\* exactly one, each copy by exactly one more, each destruction of a handle
\* lowers it by exactly one; the referent is alive while a handle points at
\* it and is destroyed once, by the destruction of the last handle (no
\* claim being detached).
PreHandlesAt(r) == {h \in Handles : pre.live[h] /\ pre.ptr[h] = r}

C11_CountLifecycle ==
  /\ (Done("raw_ctor") /\ call.p # nullptr) =>
       /\ referent[call.p].count = pre.referent[call.p].count + 1
       /\ incs = OneCall(call.p) /\ decs = NoCalls
  /\ ((Done("copy_ctor") \/ Done("copy_ctor_u")) /\ SrcOld # nullptr) =>
       /\ referent[SrcOld].count = pre.referent[SrcOld].count + 1
       /\ incs = OneCall(SrcOld) /\ decs = NoCalls
  /\ (Done("dtor") /\ Old # nullptr) =>
       /\ incs = NoCalls /\ decs = OneCall(Old)
       /\ IF PreHandlesAt(Old) = {call.self} /\ pre.detached[Old] = 0
            THEN /\ pre.referent[Old].count = 1
                 /\ referent[Old].count = 0
                 /\ ~referent[Old].alive
                 /\ referent[Old].destroyed = 1
            ELSE /\ referent[Old].count = pre.referent[Old].count - 1
                 /\ referent[Old].alive
                 /\ referent[Old].destroyed = 0
  /\ pc = "idle" =>
       \A h \in Handles :
         (live[h] /\ ptr_[h] # nullptr) =>
           /\ referent[ptr_[h]].alive
           /\ referent[ptr_[h]].destroyed = 0
  /\ \A r \in Referents : referent[r].destroyed <= 1

C11_Witness ==
  /\ Done("dtor")
  /\ Old # nullptr
  /\ pre.referent[Old].count = 1
  /\ referent[Old].destroyed = 1
  /\ \A h \in Handles : ~live[h]

\* C12: release() on the handle holding the only claim leaves the handle
\* null and the count at one; the caller's Release() on the returned pointer
\* then destroys the referent; destroying the null handle, before or after
\* that, calls no Release() and changes no referent.
C12_ReleaseScenario ==
  /\ (Done("release") /\ Old # nullptr /\ pre.referent[Old].count = 1) =>
       /\ ptr_[call.self] = nullptr
       /\ call.ret = Old
       /\ referent[Old].count = 1 /\ referent[Old].alive
       /\ detached[Old] = 1
       /\ HandlesAt(Old) = {}
  /\ (Done("caller_release") /\ pre.referent[call.p].count = 1) =>
       /\ referent[call.p].count = 0
       /\ ~referent[call.p].alive
       /\ referent[call.p].destroyed = 1
       /\ ptr_ = pre.ptr
  /\ (Done("dtor") /\ Old = nullptr) =>
       /\ incs = NoCalls /\ decs = NoCalls
       /\ referent = pre.referent

C12_Witness ==
  /\ Done("dtor")
  /\ Old = nullptr
  /\ \E r \in Referents :
       /\ detached[r] = 1
       /\ referent[r].alive /\ referent[r].count = 1
       /\ HandlesAt(r) = {}
  /\ \A h \in Handles : ~live[h]

\* C13 as stated: without release(), swap(T**) included, no Release() is
\* ever called more often than AddRef(), and once every handle is destroyed
\* every referent that received a claim is destroyed.
Claimed(r) == referent[r].count > 0 \/ referent[r].destroyed > 0
AllDestroyed == pc = "idle" /\ \A h \in Handles : ~live[h]

NoLeakNoOverRelease ==
  /\ \A r \in Referents : ~referent[r].misuse
  /\ AllDestroyed =>
       \A r \in Referents : Claimed(r) => ~referent[r].alive

C13_Original == NoLeakNoOverRelease

\* C13: in a sequence of handle operations that calls neither release()
\* nor swap(T**) on a variable of the caller, no Release() is ever called
\* more often than AddRef(), and once every handle is destroyed every
\* referent that received a claim is destroyed.
C13_NoLeakWithoutDetach == slotSwaps = 0 => NoLeakNoOverRelease

C13_Witness ==
  /\ slotSwaps = 0
  /\ AllDestroyed
  /\ Done("dtor")
  /\ Old # nullptr
  /\ referent[Old].destroyed = 1
  /\ \A r \in Referents : Claimed(r)

\* C14: h = nullptr on a non-null handle calls Release() exactly once on
\* the previous referent and no AddRef(), and leaves the handle null; the
\* destruction of a null handle calls no Release().
AssignedNull == Done("raw_assign") /\ call.p = nullptr /\ Old # nullptr

C14_AssignNullReleases ==
  /\ AssignedNull =>
       /\ decs = OneCall(Old) /\ incs = NoCalls
       /\ ptr_[call.self] = nullptr
       /\ IF pre.referent[Old].count = 1
            THEN ~referent[Old].alive /\ referent[Old].destroyed = 1
            ELSE referent[Old].count = pre.referent[Old].count - 1
  /\ (Done("dtor") /\ Old = nullptr) => decs = NoCalls

C14_Witness ==
  /\ AssignedNull
  /\ pre.referent[Old].count = 1
  /\ referent[Old].destroyed = 1
  /\ live[call.self] /\ ptr_[call.self] = nullptr

\* C17 as stated: without release() and swap(T**), in every state, the
\* steps of the assignments included, every non-null handle points at a
\* live referent with a claim count of at least one.
Dangles(p) ==
  IF p = nullptr THEN FALSE
  ELSE ~(referent[p].alive /\ referent[p].count >= 1)

C17_Original ==
  slotSwaps = 0 =>
    /\ \A h \in Handles : live[h] => ~Dangles(ptr_[h])
    /\ tmp.live => ~Dangles(tmp.ptr)

\* C17: without release() and swap(T**), every non-null handle points at
\* a live referent with a claim count of at least one, between operations
\* and at the steps of move assignment; in raw and copy assignment the one
\* exception is the receiver between its Release() and the store, whose
\* field still holds the referent that Release() has just destroyed.
C17_NoDanglingHandle ==
  slotSwaps = 0 =>
    /\ \A h \in Handles :
         (live[h] /\ Dangles(ptr_[h])) =>
           /\ pc = "assign_store" /\ InAssign
           /\ h = call.self
           /\ ptr_[h] = Old
           /\ decs[Old] = 1
           /\ pre.referent[Old].count = 1
    /\ tmp.live => ~Dangles(tmp.ptr)

C17_Witness ==
  /\ slotSwaps = 0
  /\ pc = "move_dtor"
  /\ tmp.live /\ tmp.ptr # nullptr
  /\ referent[tmp.ptr].count = 1
  /\ ptr_[call.self] # nullptr
  /\ ptr_[call.self] # tmp.ptr

\* C18: move-assigning B from a distinct handle A that points at the same
\* referent leaves the referent alive with its claim count one lower, B
\* pointing at it and A null; the count is never zero during the operation.
AliasMove ==
  /\ call.op = "move_assign"
  /\ call.src # call.self
  /\ Old # nullptr /\ Old = SrcOld

C18_AliasMoveKeepsAlive ==
  AliasMove =>
    /\ pre.referent[Old].count >= 2
    /\ referent[Old].alive
    /\ referent[Old].count >= 1
    /\ pc = "idle" =>
         /\ referent[Old].count = pre.referent[Old].count - 1
         /\ ptr_[call.self] = Old
         /\ ptr_[call.src] = nullptr
         /\ decs = OneCall(Old) /\ incs = NoCalls

C18_Witness ==
  /\ AliasMove /\ pc = "idle"
  /\ pre.referent[Old].count = 2
  /\ referent[Old].count = 1
  /\ HandlesAt(Old) = {call.self}

\* C19: a handle operation changes the field of no handle but its receiver
\* and the argument of a move or a swap, and the claim count of no referent
\* but the receiver's previous one and the one assigned; get() and the
\* other read accessors change nothing.
HandleOp == call.op \notin {"none", "caller_release"}
TakesFromSource == call.op \in {"move_ctor", "move_assign", "swap"}

C19_Frame ==
  HandleOp =>
    /\ \A h \in Handles \ {call.self, call.src} :
         ptr_[h] = pre.ptr[h] /\ live[h] = pre.live[h]
    /\ (~TakesFromSource /\ call.src # call.self) =>
         ptr_[call.src] = pre.ptr[call.src] /\ live[call.src]
    /\ \A r \in Referents \ {Old, call.p} : referent[r] = pre.referent[r]
    /\ detached # pre.detached => call.op = "release"
    /\ call.op = "get" =>
         /\ call.ret = Old
         /\ ptr_ = pre.ptr /\ live = pre.live
         /\ referent = pre.referent
         /\ incs = NoCalls /\ decs = NoCalls

C19_Witness ==
  /\ Done("copy_assign")
  /\ call.src # call.self
  /\ Old # nullptr /\ SrcOld # nullptr /\ Old # SrcOld
  /\ \E h \in Handles \ {call.self, call.src} :
       live[h] /\ ptr_[h] = Old
  /\ referent[Old].count = pre.referent[Old].count - 1

\* C15: when the calls of InitCocoaMultiThreading do not overlap, the
\* static flag is initialized once, only the first call can detach a
\* thread and write the flag, it does so only if the process was not
\* multi-threaded already, and every later call finds the flag set and
\* returns without any effect.
NoCallInside == \A t \in Threads : ~Inside(t)

C15_SequentialIdempotent ==
  ~hist.overlap =>
    /\ hist.inits <= 1
    /\ hist.detachedBy \subseteq {1}
    /\ hist.setBy \subseteq {1}
    /\ hist.detachedBy # {} => ~hist.mtBefore
    /\ (~hist.mtBefore /\ hist.started >= 1 /\ NoCallInside) =>
         hist.detachedBy = {1}
    /\ \A t \in Threads :
         thr[t].no >= 2 =>
           /\ thr[t].pc \in {"out", "check"}
           /\ isMultiThreaded
           /\ is_cocoa_multithreaded.val

C15_Witness ==
  /\ ~hist.overlap
  /\ hist.started = 3
  /\ NoCallInside
  /\ hist.detachedBy = {1}
  /\ \A t \in Threads : thr[t].calls >= 1

\* C16: under every interleaving of the calls, the static flag is
\* initialized once and never goes from true to false, a thread is
\* detached only by a call that read the flag as false, the RTC_DCHECK
\* never fails and every call that has returned leaves the process
\* multi-threaded, also when several calls detach a thread.
C16_ConcurrentCalls ==
  /\ [](/\ hist.inits <= 1
        /\ hist.started >= 1 =>
             hist.inits = 1 /\ is_cocoa_multithreaded.init
        /\ ~hist.dcheckFailed
        /\ \A t \in Threads :
             /\ thr[t].pc \in {"detach", "set", "dcheck"} => ~thr[t].saw
             /\ thr[t].pc = "dcheck" => isMultiThreaded
             /\ thr[t].calls >= 1 => isMultiThreaded)
  /\ [][is_cocoa_multithreaded.val => is_cocoa_multithreaded'.val]_vars
  /\ [][is_cocoa_multithreaded.init => is_cocoa_multithreaded'.init]_vars

C16_Witness ==
  /\ hist.overlap
  /\ Cardinality(hist.detachedBy) = 2
  /\ NoCallInside
  /\ isMultiThreaded /\ is_cocoa_multithreaded.val
  /\ ~hist.dcheckFailed

====
